---- MODULE Spec2Model ----
(***************************************************************************)
(* Model of the PAU25Andalucia pipeline: the batch materializer            *)
(* (process_subject.py) that fills the position-addressed cache, the       *)
(* assembler (assemble.py) that merges the cached artifacts into one       *)
(* document with a two-level outline, and the verifier (qa.py).            *)
(*                                                                         *)
(* The specifications share the variables:                                 *)
(*   Spec          runs of process_subject_batch (--start >= 0) over one   *)
(*                 manifest, starting from an empty cache                  *)
(*   SpecAssemble  one run of assemble.py main over a manifest and a cache *)
(*                 as batches can leave it                                 *)
(*   SpecPipeline  batches over the whole manifest, regenerations of the   *)
(*                 manifest that change a URL, then the discovery loop of  *)
(*                 assemble.py                                             *)
(*   SpecResolve   the entry point resolution of process_scorm_zip over    *)
(*                 every package                                           *)
(*   SpecQa        one run of qa.py main over a manifest and a document    *)
(***************************************************************************)
EXTENDS Integers, Sequences, FiniteSets, TLC

(* ------------------------------ bounds --------------------------------- *)
\* longest resource_list_ordered explored by Spec
MaxRes == 2
\* largest page count of one artifact
MaxPages == 2
\* number of process_subject_batch invocations explored
MaxRuns == 2
\* most units of resources_by_unit explored by SpecAssemble
MaxUnits == 2
\* most resources listed under one unit explored by SpecAssemble
MaxPerUnit == 2
\* most positions whose URL a regenerated manifest changes in SpecPipeline
MaxRegens == 1
\* most resources of a manifest, and most resource nodes of a document,
\* explored by SpecQa
MaxQaRes == 10

(* --------------------------- value domains ----------------------------- *)
URLs == {"a", "b"}

\* hashlib.sha1(url).hexdigest()[:10]: a fixed digest per URL.  The two
\* model URLs have different digests (no truncated-hash collision).
ShortHash(url) == IF url = "a" THEN "86f7e437fa" ELSE "e9d71f5ee7"

\* values of resource['type'] a manifest written by discover.py can carry
\* and that the batch explores ("zip" stands for the types without a branch)
BatchTypes == {"scorm_zip", "agrega_html", "pdf", "zip"}

\* a file of a cache directory: absent, a well-formed PDF of `pages` pages,
\* or bytes that do not open as a PDF
NoFile == [kind |-> "none", pages |-> 0]

JunkFile == [kind |-> "junk", pages |-> 0]

PdfFile(n) == [kind |-> "pdf", pages |-> n]

PdfFiles == {PdfFile(n) : n \in 1..MaxPages}

\* bodies an HTTP GET of a 'pdf' resource can deliver with a 2xx status
Bodies == PdfFiles \cup {JunkFile}

\* a content of <temp-root>/<subject>/<index>_<hash10>/: the two artifact
\* files and whether the extraction directory "unzipped" exists
EmptyDir == [output |-> NoFile, direct |-> NoFile, unzipped |-> FALSE]

\* a directory name made of the position alone
DirName_PositionOnly(pos, url) == <<pos, "">>

\* f"{i:03d}_{resource_hash}": the pair (position, digest) names the directory
DirName(pos, url) == <<pos, ShortHash(url)>>

\* value of netOp when the step neither fetched nor rendered
NoOp == <<0, "">>

None == "None"

\* value of package when no package is being resolved
NoPackage == [hasManifest |-> FALSE, href |-> None, files |-> {}]

\* the report before main has put anything in it
NoReport == <<>>

\* checksums.json: missing, a JSON object (url -> sha256 entry), or the
\* empty file open(..., 'w') leaves before json.dump has written
NoChecksumsFile == [state |-> "missing", entries |-> <<>>]

Min(x, y) == IF x <= y THEN x ELSE y

(* ------------------------------ state ---------------------------------- *)
VARIABLES
    manifest,     \* manifest_<subject>.json as loaded
    cache,        \* BASE_TEMP_DIR / subject: name of each existing directory -> content
    status,       \* of the batch process: idle, running, finished (line 171 reached),
                  \* interrupted (killed), crashed (an exception left the loop)
    start_index,  \* --start of the current batch
    end_index,    \* min(start_index + count, len(resources))
    i,            \* loop variable of process_subject_batch
    pc,           \* position inside the loop body
    target,       \* what render_html_to_pdf was asked to render, and whether it exists
    result,       \* per position: how the current batch left it
    netOp,        \* directory for which the last step fetched or rendered, or NoOp
    runs,         \* number of batches started
    asm_pc,       \* position inside assemble.py: idle, assemble, units, done (saved),
                  \* nothing (no parts, no document)
    found_parts,  \* main's found_parts
    unit_idx,     \* number of units of resources_by_unit the outer loop has dealt with
    page_offset,  \* assemble_final_pdf's page_offset
    final_pages,  \* final_pdf.pages: each page is (source file, page number in it)
    outline,      \* outline.root: the unit nodes with their children
    made_for,     \* history: the URL for which each cache directory was claimed
    package,      \* an extracted SCORM package handed to the entry point resolution
    resolved,     \* process_scorm_zip's entry_point once the package is resolved
    outline_ok,   \* whether pdf.open_outline can read the document's outline
    report,       \* qa.py's report: check name -> entry
    qa_pc,        \* position inside qa.py main: idle, the next check, done
    removed,      \* what the rmtree of line 157 removed in the last step:
                  \* <<>> for nothing, <<content>> for a directory
    mathjax,      \* how the MathJax wait of the render in progress ended
    manifest_file,     \* whether manifest_<subject>.json exists
    subject_temp_dir,  \* whether BASE_TEMP_DIR / subject exists
    unit_urls_map,     \* discover.py: the unit names find_unit_urls returned
    by_unit,           \* discover.py: main's resources_by_unit, in insertion order
    disc_k,            \* discover.py: number of sorted units the loop of line 156 has visited
    disc_pc,           \* discover.py: idle, units, written, failed (exit 1)
    dl_manifest,       \* download.py: the resources of manifest_discovery.json (their URLs)
    checksums_file,    \* download.py: checksums.json on disk
    checksums,         \* download.py: main's checksums dictionary
    dl_k,              \* download.py: number of resources main's loop has dealt with
    dl_pc,             \* download.py: position inside main and download_file
    attempt,           \* download.py: loop variable of download_file
    slept,             \* download.py: the time.sleep calls of the current download_file call
    wgets,             \* download.py: wget runs of the current download_file call
    dl_result,         \* download.py: what download_file returned
    dl_runs            \* download.py: number of runs of main started

batchVars == <<status, start_index, end_index, i, pc, target, result, netOp, runs, removed, mathjax>>

asmVars == <<asm_pc, found_parts, unit_idx, page_offset, final_pages, outline>>

resolveVars == <<package, resolved>>

qaVars == <<outline_ok, report, qa_pc>>

setupVars == <<manifest_file, subject_temp_dir>>

discVars == <<unit_urls_map, by_unit, disc_k, disc_pc>>

dlVars == <<dl_manifest, checksums_file, checksums, dl_k, dl_pc, attempt, slept, wgets, dl_result, dl_runs>>

stageVars == <<setupVars, discVars, dlVars>>

vars == <<manifest, cache, batchVars, asmVars, made_for, resolveVars, qaVars, stageVars>>

(* ---------------------- process_subject.py ----------------------------- *)
\* resources[i] with Python's indexing: negative i counts from the end
InRange(seq, idx) == (0 - Len(seq)) <= idx /\ idx < Len(seq)

PyIndex(seq, idx) == IF idx >= 0 THEN seq[idx + 1] ELSE seq[Len(seq) + idx + 1]

resources == manifest.resource_list_ordered

\* resource_temp_dir of position pos (lines 150-151)
ResourceTempDir(pos) == DirName(pos, PyIndex(resources, pos).url)

\* Path.exists of a file of directory d: NoFile when the file or d is missing
OutputPdf(d) == IF d \in DOMAIN cache THEN cache[d].output ELSE NoFile

DirectPdf(d) == IF d \in DOMAIN cache THEN cache[d].direct ELSE NoFile

\* mkdir without the rmtree before it: an existing directory keeps its content
WriteDir_KeepExisting(d, content) ==
    [x \in DOMAIN cache \cup {d} |-> IF x \in DOMAIN cache THEN cache[x] ELSE content]

\* the cache after directory d was given this content
WriteDir(d, content) ==
    [x \in DOMAIN cache \cup {d} |-> IF x = d THEN content ELSE cache[x]]

\* made_for once directory d was claimed for the resource of this url
ClaimedFor(d, url) ==
    [x \in DOMAIN made_for \cup {d} |-> IF x = d THEN url ELSE made_for[x]]

\* line 153: the "Already processed" test
AlreadyProcessed_OutputOnly(d) == d \in DOMAIN cache /\ OutputPdf(d) # NoFile

AlreadyProcessed(d) ==
    d \in DOMAIN cache /\ (OutputPdf(d) # NoFile \/ DirectPdf(d) # NoFile)

\* lines 168-169: an exception of the dispatch is caught and the loop goes on
AfterException_Uncaught(pos) == [status |-> "crashed", i |-> pos]

AfterException(pos) == [status |-> "running", i |-> pos + 1]

\* first statement executed by the dispatch of lines 162-167
FirstStep(type) ==
    CASE type = "scorm_zip" -> "process_scorm_zip"
      [] type \in {"agrega_html", "scorm_html"} -> "render_load"
      [] type = "pdf" -> "process_direct_pdf"
      [] OTHER -> "no_branch"

\* outcome of position p in the current batch, "none" before the loop reaches it
ResultAt(p) == IF p \in DOMAIN result THEN result[p] ELSE "none"

SetResult(p, outcome) ==
    [x \in DOMAIN result \cup {p} |-> IF x = p THEN outcome ELSE result[x]]

NoResult == <<>>

NoTarget == [name |-> None, exists |-> FALSE]

UrlTarget == [name |-> "url", exists |-> TRUE]

\* the loop going on two positions further
NextResource_SkipOne(outcome) ==
    /\ result' = SetResult(i, outcome)
    /\ i' = i + 2
    /\ pc' = "head"
    /\ target' = NoTarget
    /\ removed' = <<>>
    /\ mathjax' = "none"
    /\ UNCHANGED <<status>>

\* the loop body is over for position i: back to the loop head
NextResource(outcome) ==
    /\ result' = SetResult(i, outcome)
    /\ i' = i + 1
    /\ pc' = "head"
    /\ target' = NoTarget
    /\ removed' = <<>>
    /\ mathjax' = "none"
    /\ UNCHANGED <<status>>

\* an exception reached the try of lines 161-169
Raise ==
    /\ result' = SetResult(i, "exception")
    /\ status' = AfterException(i).status
    /\ i' = AfterException(i).i
    /\ pc' = "head"
    /\ target' = NoTarget
    /\ removed' = <<>>
    /\ mathjax' = "none"

\* process_subject_batch, lines 129-132: sys.exit(1) when the manifest is
\* missing, before raw_dumps or the cache is touched
BatchSetupFails ==
    /\ status # "running"
    /\ runs < MaxRuns
    /\ ~manifest_file
    /\ status' = "setup_failed"
    /\ runs' = runs + 1
    /\ netOp' = NoOp
    /\ UNCHANGED <<manifest, cache, start_index, end_index, i, pc, target, result, removed, mathjax, asmVars,
                   made_for, resolveVars, qaVars, stageVars>>

\* process_subject_batch called: lines 128-143
StartBatch(s, c) ==
    /\ status # "running"
    /\ runs < MaxRuns
    /\ manifest_file
    /\ status' = "running"
    /\ runs' = runs + 1
    /\ start_index' = s
    /\ end_index' = Min(s + c, Len(resources))
    /\ i' = s
    /\ pc' = "head"
    /\ result' = NoResult
    /\ netOp' = NoOp
    /\ target' = NoTarget
    /\ removed' = <<>>
    /\ mathjax' = "none"
    /\ UNCHANGED <<manifest, cache, asmVars, made_for, resolveVars, qaVars, stageVars>>

\* range(start_index, end_index) exhausted: line 171
FinishBatch ==
    /\ status = "running" /\ pc = "head"
    /\ i >= end_index
    /\ status' = "finished"
    /\ netOp' = NoOp
    /\ UNCHANGED <<manifest, cache, start_index, end_index, i, pc, target, result, runs, removed, mathjax, asmVars, made_for, resolveVars, qaVars, stageVars>>

\* lines 153-155: "Already processed. Skipping."
SkipProcessed ==
    /\ status = "running" /\ pc = "head"
    /\ i < end_index
    /\ InRange(resources, i)
    /\ AlreadyProcessed(ResourceTempDir(i))
    /\ NextResource("skipped")
    /\ netOp' = NoOp
    /\ UNCHANGED <<manifest, cache, start_index, end_index, runs, asmVars, made_for, resolveVars, qaVars, stageVars>>

\* lines 157-159: rmtree, mkdir, then the dispatch on resource['type']
ClaimDirectory ==
    /\ status = "running" /\ pc = "head"
    /\ i < end_index
    /\ InRange(resources, i)
    /\ ~AlreadyProcessed(ResourceTempDir(i))
    /\ removed' = IF ResourceTempDir(i) \in DOMAIN cache
                  THEN <<cache[ResourceTempDir(i)]>> ELSE <<>>
    /\ cache' = WriteDir(ResourceTempDir(i), EmptyDir)
    /\ subject_temp_dir' = TRUE
    /\ pc' = FirstStep(PyIndex(resources, i).type)
    /\ target' = IF FirstStep(PyIndex(resources, i).type) = "render_load"
                 THEN UrlTarget ELSE NoTarget
    /\ result' = SetResult(i, "started")
    /\ netOp' = NoOp
    /\ made_for' = ClaimedFor(ResourceTempDir(i), PyIndex(resources, i).url)
    /\ UNCHANGED <<manifest, status, start_index, end_index, i, runs, mathjax, asmVars, resolveVars, qaVars,
                   manifest_file, discVars, dlVars>>

\* lines 162-167: no branch for this type, the try block does nothing
NoBranch ==
    /\ status = "running" /\ pc = "no_branch"
    /\ NextResource("unhandled_type")
    /\ netOp' = NoOp
    /\ UNCHANGED <<manifest, cache, start_index, end_index, runs, asmVars, made_for, resolveVars, qaVars, stageVars>>

(* process_scorm_zip: lines 91-112 *)
ConventionalNames == <<"index.html", "index.htm", "main.html", "content.html", "start.html">>

\* an extracted package: whether imsmanifest.xml exists, the first href
\* ending in .htm/.html that the regular expression of line 102 finds in it
\* (None when nothing matches), and the HTML files present
PackagesOver(names) ==
    [hasManifest : BOOLEAN, href : names \cup {None}, files : SUBSET names]

\* the packages a batch is explored with: a conventional entry point and a
\* declared one, each present or not
ExploredPackages == PackagesOver({"index.html", "sco.html"})

\* lines 105-108: the first conventional name that exists, from position k on
RECURSIVE FirstExisting(_, _)
FirstExisting(files, k) ==
    IF k > Len(ConventionalNames) THEN None
    ELSE IF ConventionalNames[k] \in files THEN ConventionalNames[k]
    ELSE FirstExisting(files, k + 1)

\* the fallback loop run first, the declared href only as a last resort
ResolveEntryPoint_FallbackFirst(pkg) ==
    LET declared == IF pkg.hasManifest THEN pkg.href ELSE None
        fallback == FirstExisting(pkg.files, 1)
    IN  IF fallback # None THEN fallback ELSE declared

\* lines 99-108: entry_point after the manifest lookup and the fallback loop
ResolveEntryPoint(pkg) ==
    LET declared == IF pkg.hasManifest THEN pkg.href ELSE None
        fallback == FirstExisting(pkg.files, 1)
    IN  IF declared = None \/ declared \notin pkg.files
        THEN IF fallback # None THEN fallback ELSE declared
        ELSE declared

\* requests.get or raise_for_status raises (line 93-94)
ScormZipFetchError ==
    /\ status = "running" /\ pc = "process_scorm_zip"
    /\ netOp' = ResourceTempDir(i)
    /\ Raise
    /\ UNCHANGED <<manifest, cache, start_index, end_index, runs, asmVars, made_for, resolveVars, qaVars, stageVars>>

\* the body is not a zip archive: extract_path exists, ZipFile raises (lines 95-98)
ScormZipBadArchive ==
    /\ status = "running" /\ pc = "process_scorm_zip"
    /\ netOp' = ResourceTempDir(i)
    /\ cache' = [cache EXCEPT ![ResourceTempDir(i)].unzipped = TRUE]
    /\ Raise
    /\ UNCHANGED <<manifest, start_index, end_index, runs, asmVars, made_for, resolveVars, qaVars, stageVars>>

\* the package is fetched, extracted and its entry point resolved (lines 93-112)
ScormZipExtract ==
    /\ status = "running" /\ pc = "process_scorm_zip"
    /\ netOp' = ResourceTempDir(i)
    /\ cache' = [cache EXCEPT ![ResourceTempDir(i)].unzipped = TRUE]
    /\ \E pkg \in ExploredPackages :
         LET entry_point == ResolveEntryPoint(pkg) IN
         IF entry_point = None
         THEN NextResource("no_entry_point")
         ELSE /\ target' = [name |-> entry_point, exists |-> entry_point \in pkg.files]
              /\ pc' = "render_load"
              /\ removed' = <<>>
              /\ UNCHANGED <<status, i, result, mathjax>>
    /\ UNCHANGED <<manifest, start_index, end_index, runs, asmVars, made_for, resolveVars, qaVars, stageVars>>

(* render_html_to_pdf: lines 23-88 *)
\* the timeout of the MathJax wait treated like any other exception of the
\* render: return None
AfterMathJax_TimeoutFails(waited) ==
    IF waited = "timeout" THEN "return_none" ELSE "render_capture"

\* lines 44-62: whether the MathJax wait completes or times out (the
\* PlaywrightTimeoutError is caught at line 59), page.pdf comes next
AfterMathJax(waited) == "render_capture"

\* lines 34-62: browser start, page.goto, then the MathJax wait, which either
\* completes or times out
RenderLoad ==
    /\ status = "running" /\ pc = "render_load"
    /\ target.exists
    /\ netOp' = ResourceTempDir(i)
    /\ \E waited \in {"complete", "timeout"} :
         IF AfterMathJax(waited) = "render_capture"
         THEN /\ pc' = "render_capture"
              /\ mathjax' = waited
              /\ target' = NoTarget
              /\ removed' = <<>>
              /\ UNCHANGED <<status, i, result>>
         ELSE /\ result' = SetResult(i, "render_failed")
              /\ i' = i + 1
              /\ pc' = "head"
              /\ mathjax' = waited
              /\ target' = NoTarget
              /\ removed' = <<>>
              /\ UNCHANGED <<status>>
    /\ UNCHANGED <<manifest, cache, start_index, end_index, runs, asmVars, made_for, resolveVars, qaVars, stageVars>>

\* lines 34-62 raise (launch or navigation error, missing local file):
\* caught at line 74, dumps go to raw_dumps, return None
RenderLoadFails ==
    /\ status = "running" /\ pc = "render_load"
    /\ netOp' = ResourceTempDir(i)
    /\ NextResource("render_failed")
    /\ UNCHANGED <<manifest, cache, start_index, end_index, runs, asmVars, made_for, resolveVars, qaVars, stageVars>>

\* lines 64-69: page.pdf writes output.pdf
RenderCapture ==
    /\ status = "running" /\ pc = "render_capture"
    /\ \E n \in 1..MaxPages :
         cache' = [cache EXCEPT ![ResourceTempDir(i)].output = PdfFile(n)]
    /\ pc' = "render_dump"
    /\ netOp' = NoOp
    /\ UNCHANGED <<manifest, status, start_index, end_index, i, target, result, runs, removed, mathjax, asmVars, made_for, resolveVars, qaVars, stageVars>>

\* lines 64-69 raise: return None
RenderCaptureFails ==
    /\ status = "running" /\ pc = "render_capture"
    /\ NextResource("render_failed")
    /\ netOp' = NoOp
    /\ UNCHANGED <<manifest, cache, start_index, end_index, runs, asmVars, made_for, resolveVars, qaVars, stageVars>>

\* lines 71-73: the fallback text is written, return output_pdf_path
RenderDump ==
    /\ status = "running" /\ pc = "render_dump"
    /\ NextResource("ok")
    /\ netOp' = NoOp
    /\ UNCHANGED <<manifest, cache, start_index, end_index, runs, asmVars, made_for, resolveVars, qaVars, stageVars>>

\* lines 71-72 raise after page.pdf wrote output.pdf: caught at line 74, return None
RenderDumpFails ==
    /\ status = "running" /\ pc = "render_dump"
    /\ NextResource("render_failed")
    /\ netOp' = NoOp
    /\ UNCHANGED <<manifest, cache, start_index, end_index, runs, asmVars, made_for, resolveVars, qaVars, stageVars>>

(* process_direct_pdf: lines 114-125 *)
\* requests.get or raise_for_status raises (lines 116-117)
DirectPdfFetchError ==
    /\ status = "running" /\ pc = "process_direct_pdf"
    /\ netOp' = ResourceTempDir(i)
    /\ Raise
    /\ UNCHANGED <<manifest, cache, start_index, end_index, runs, asmVars, made_for, resolveVars, qaVars, stageVars>>

\* lines 116-119: the body is fetched and written to direct.pdf
DirectPdfWrite ==
    /\ status = "running" /\ pc = "process_direct_pdf"
    /\ netOp' = ResourceTempDir(i)
    /\ \E body \in Bodies :
         cache' = [cache EXCEPT ![ResourceTempDir(i)].direct = body]
    /\ pc' = "pdf_validate"
    /\ removed' = <<>>
    /\ UNCHANGED <<manifest, status, start_index, end_index, i, target, result, runs, mathjax, asmVars, made_for, resolveVars, qaVars, stageVars>>

\* lines 120-125: pikepdf.open decides between the path and None
DirectPdfValidate ==
    /\ status = "running" /\ pc = "pdf_validate"
    /\ NextResource(IF cache[ResourceTempDir(i)].direct.kind = "pdf"
                    THEN "ok" ELSE "invalid_artifact")
    /\ netOp' = NoOp
    /\ UNCHANGED <<manifest, cache, start_index, end_index, runs, asmVars, made_for, resolveVars, qaVars, stageVars>>

\* the batch process is killed (signal, power loss) between two steps
Interrupt ==
    /\ status = "running"
    /\ status' = "interrupted"
    /\ netOp' = NoOp
    /\ UNCHANGED <<manifest, cache, start_index, end_index, i, pc, target, result, runs, removed, mathjax, asmVars, made_for, resolveVars, qaVars, stageVars>>

(* --------------------------- manifests --------------------------------- *)
\* a resource of the manifest (discover.py lines 122-126, 160); a unit name
\* "Unidad <n>" (discover.py line 67) is modelled by its number n
Resource(url, type, unit) == [url |-> url, type |-> type, unit |-> unit]

\* the manifests Spec starts from: every resource_list_ordered of at most
\* MaxRes resources with any type at each position, grouped under one unit;
\* position k carries the URL UrlAt(k), so that neighbours differ in URL
UrlAt(k) == IF k % 2 = 1 THEN "a" ELSE "b"

BatchLists ==
    UNION {{[k \in 1..n |-> Resource(UrlAt(k), types[k], 1)] :
                types \in [1..n -> BatchTypes]} : n \in 0..MaxRes}

BatchManifest(flat) ==
    [resources_by_unit |-> IF flat = <<>> THEN <<>>
                           ELSE <<[name |-> 1, resources |-> flat]>>,
     resource_list_ordered |-> flat]

(* ------------------------- specification ------------------------------- *)
\* no batch has been started
BatchIdle ==
    /\ status = "idle"
    /\ start_index = 0
    /\ end_index = 0
    /\ i = 0
    /\ pc = "head"
    /\ target = NoTarget
    /\ result = NoResult
    /\ netOp = NoOp
    /\ runs = 0
    /\ removed = <<>>
    /\ mathjax = "none"

\* assemble.py has not been started
AsmIdle ==
    /\ asm_pc = "idle"
    /\ found_parts = <<>>
    /\ unit_idx = 0
    /\ page_offset = 0
    /\ final_pages = <<>>
    /\ outline = <<>>

\* no package is being resolved
ResolveIdle ==
    /\ package = NoPackage
    /\ resolved = None

\* qa.py has not been started
QaIdle ==
    /\ outline_ok = TRUE
    /\ report = NoReport
    /\ qa_pc = "idle"

\* discover.py has not been started
DiscIdle ==
    /\ unit_urls_map = {}
    /\ by_unit = <<>>
    /\ disc_k = 0
    /\ disc_pc = "idle"

\* download.py has not been started and has left no checksums.json
DlIdle ==
    /\ dl_manifest = <<>>
    /\ checksums_file = NoChecksumsFile
    /\ checksums = <<>>
    /\ dl_k = 0
    /\ dl_pc = "idle"
    /\ attempt = 0
    /\ slept = <<>>
    /\ wgets = 0
    /\ dl_result = None
    /\ dl_runs = 0

\* the manifest of the subject is on disk; the other stages are idle
StageIdle ==
    /\ manifest_file = TRUE
    /\ DiscIdle
    /\ DlIdle

Init ==
    /\ manifest \in {BatchManifest(flat) : flat \in BatchLists}
    /\ cache = <<>>
    /\ made_for = <<>>
    /\ BatchIdle
    /\ AsmIdle
    /\ ResolveIdle
    /\ StageIdle
    /\ subject_temp_dir = FALSE
    /\ QaIdle

\* values of --start and --count explored
StartValues == 0 .. MaxRes

CountValues == 0 .. (MaxRes + 1)

Next ==
    \/ \E s \in StartValues, c \in CountValues : StartBatch(s, c)
    \/ FinishBatch
    \/ SkipProcessed
    \/ ClaimDirectory
    \/ NoBranch
    \/ ScormZipFetchError
    \/ ScormZipBadArchive
    \/ ScormZipExtract
    \/ RenderLoad
    \/ RenderLoadFails
    \/ RenderCapture
    \/ RenderCaptureFails
    \/ RenderDump
    \/ RenderDumpFails
    \/ DirectPdfFetchError
    \/ DirectPdfWrite
    \/ DirectPdfValidate
    \/ Interrupt

Spec == Init /\ [][Next]_vars

(* --------------------------- assemble.py ------------------------------- *)
units == manifest.resources_by_unit

\* a path of the cache and the file it names
PartPath(dirname, filename) == [dir |-> dirname, file |-> filename]

FileAt(path) ==
    IF path.file = "output.pdf" THEN OutputPdf(path.dir) ELSE DirectPdf(path.dir)

\* main, lines 90-91: a one-based index in the directory name
AsmTempDir_OneBased(idx, resource) == DirName(idx + 1, resource.url)

\* main, lines 90-91: resource_temp_dir of enumerate's index idx
AsmTempDir(idx, resource) == DirName(idx, resource.url)

\* main, lines 89-101: the parts found for the first n resources of
\* resource_list_ordered; output.pdf is looked for first, then direct.pdf
RECURSIVE FoundParts(_)
FoundParts(n) ==
    IF n = 0 THEN <<>>
    ELSE LET resource == resources[n]
             resource_temp_dir == AsmTempDir(n - 1, resource)
             potential_pdf_path ==
                 IF OutputPdf(resource_temp_dir) # NoFile
                 THEN PartPath(resource_temp_dir, "output.pdf")
                 ELSE PartPath(resource_temp_dir, "direct.pdf")
         IN  IF FileAt(potential_pdf_path) # NoFile
             THEN Append(FoundParts(n - 1),
                         [path |-> potential_pdf_path, resource |-> resource])
             ELSE FoundParts(n - 1)

\* only the first part of the unit kept
PartsForUnit_FirstOnly(parts, unit_name) ==
    LET of_unit == SelectSeq(parts, LAMBDA part : part.resource.unit = unit_name)
    IN  IF of_unit = <<>> THEN <<>> ELSE <<of_unit[1]>>

\* line 29: parts_for_this_unit
PartsForUnit(parts, unit_name) ==
    SelectSeq(parts, LAMBDA part : part.resource.unit = unit_name)

\* line 39: index of the first part whose resource has this url, 0 for None
RECURSIVE MatchingPart(_, _, _)
MatchingPart(parts, url, k) ==
    IF k > Len(parts) THEN 0
    ELSE IF parts[k].resource.url = url THEN k
    ELSE MatchingPart(parts, url, k + 1)

\* line 43: pikepdf.open succeeds on a well-formed PDF only
Opens(file) == file.kind = "pdf"

\* src.pages: each page is named by its file and its number in it
SrcPages(path) == [n \in 1 .. FileAt(path).pages |-> [path |-> path, n |-> n]]

\* lines 38-52: the inner loop from resource r of the unit on; acc carries
\* the unit node's children, final_pdf.pages and page_offset
RECURSIVE AppendResources(_, _, _, _)
AppendResources(parts_for_this_unit, resources_in_unit, r, acc) ==
    IF r > Len(resources_in_unit) THEN acc
    ELSE LET k == MatchingPart(parts_for_this_unit, resources_in_unit[r].url, 1)
         IN  IF k = 0
             THEN AppendResources(parts_for_this_unit, resources_in_unit, r + 1, acc)
             ELSE IF ~Opens(FileAt(parts_for_this_unit[k].path))
             THEN AppendResources(parts_for_this_unit, resources_in_unit, r + 1, acc)
             ELSE AppendResources(parts_for_this_unit, resources_in_unit, r + 1,
                    [children |-> Append(acc.children,
                                         [item |-> r, page |-> acc.page_offset]),
                     pages |-> acc.pages \o SrcPages(parts_for_this_unit[k].path),
                     page_offset |-> acc.page_offset
                                       + FileAt(parts_for_this_unit[k].path).pages])

\* main, lines 71-82, with the test of the temp directory left out
AsmSetupOk_ManifestOnly == manifest_file

\* main, lines 71-82: the manifest and the subject's temp directory exist
AsmSetupOk == manifest_file /\ subject_temp_dir

\* main, lines 71-82: sys.exit(1) when the manifest or the temp directory is
\* missing, before anything is read or written
AsmSetupFails ==
    /\ asm_pc = "idle"
    /\ ~AsmSetupOk
    /\ asm_pc' = "setup_failed"
    /\ UNCHANGED <<manifest, cache, batchVars, made_for, resolveVars, qaVars, stageVars, found_parts, unit_idx,
                   page_offset, final_pages, outline>>

\* main, lines 86-104: the discovery loop over resource_list_ordered
DiscoverParts ==
    /\ asm_pc = "idle"
    /\ AsmSetupOk
    /\ found_parts' = FoundParts(Len(resources))
    /\ asm_pc' = "assemble"
    /\ UNCHANGED <<manifest, cache, batchVars, made_for, resolveVars, qaVars, stageVars, unit_idx, page_offset, final_pages, outline>>

\* assemble_final_pdf, lines 16-18: no parts, nothing is written
NothingToAssemble ==
    /\ asm_pc = "assemble"
    /\ found_parts = <<>>
    /\ asm_pc' = "nothing"
    /\ UNCHANGED <<manifest, cache, batchVars, made_for, resolveVars, qaVars, stageVars, found_parts, unit_idx, page_offset,
                   final_pages, outline>>

\* lines 20-26: the new document and its outline are opened
OpenOutline ==
    /\ asm_pc = "assemble"
    /\ found_parts # <<>>
    /\ asm_pc' = "units"
    /\ page_offset' = 0
    /\ unit_idx' = 0
    /\ final_pages' = <<>>
    /\ outline' = <<>>
    /\ UNCHANGED <<manifest, cache, batchVars, made_for, resolveVars, qaVars, stageVars, found_parts>>

\* lines 27-30: a unit without parts is passed over
SkipUnit ==
    /\ asm_pc = "units"
    /\ unit_idx < Len(units)
    /\ PartsForUnit(found_parts, units[unit_idx + 1].name) = <<>>
    /\ unit_idx' = unit_idx + 1
    /\ UNCHANGED <<manifest, cache, batchVars, made_for, resolveVars, qaVars, stageVars, asm_pc, found_parts, page_offset,
                   final_pages, outline>>

\* lines 27-52: a unit with parts gets its node, then its resources are merged.
\* A node's title is the unit name or resource['text']; the model names a
\* resource node by the index of its resource in the unit's list instead.
AssembleUnit ==
    /\ asm_pc = "units"
    /\ unit_idx < Len(units)
    /\ LET unit == units[unit_idx + 1]
           parts_for_this_unit == PartsForUnit(found_parts, unit.name)
           done == AppendResources(parts_for_this_unit, unit.resources, 1,
                                   [children |-> <<>>, pages |-> final_pages,
                                    page_offset |-> page_offset])
       IN  /\ parts_for_this_unit # <<>>
           /\ outline' = Append(outline, [unit |-> unit_idx + 1, title |-> unit.name,
                                          page |-> page_offset,
                                          children |-> done.children])
           /\ final_pages' = done.pages
           /\ page_offset' = done.page_offset
    /\ unit_idx' = unit_idx + 1
    /\ UNCHANGED <<manifest, cache, batchVars, made_for, resolveVars, qaVars, stageVars, asm_pc, found_parts>>

\* lines 54-59: the document is saved
SaveFinalPdf ==
    /\ asm_pc = "units"
    /\ unit_idx = Len(units)
    /\ asm_pc' = "done"
    /\ UNCHANGED <<manifest, cache, batchVars, made_for, resolveVars, qaVars, stageVars, found_parts, unit_idx, page_offset,
                   final_pages, outline>>

(* manifests and caches SpecAssemble starts from *)
\* the list of a unit: at most MaxPerUnit resources with any URLs (two
\* resources of a unit may share one), each carrying the name of its unit in
\* 'unit'; assemble.py does not read 'type'
AsmUnitLists(unit_name) ==
    UNION {{[r \in 1..n |-> Resource(urls[r], "pdf", unit_name)] :
                urls \in [1..n -> URLs]} : n \in 0..MaxPerUnit}

\* resources_by_unit: units 1..n in this order, each with any list
AsmShapes == UNION {[1..n -> AsmUnitLists(1)] : n \in 0..MaxUnits}

AsmGroupings ==
    {[k \in 1..Len(shape) |->
         [name |-> k,
          resources |-> [r \in 1..Len(shape[k]) |->
                            Resource(shape[k][r].url, "pdf", k)]]] :
       shape \in AsmShapes}

\* discover.py line 163: the lists of the units, one after the other
RECURSIVE Flatten(_)
Flatten(grouping) ==
    IF grouping = <<>> THEN <<>>
    ELSE Flatten(SubSeq(grouping, 1, Len(grouping) - 1))
           \o grouping[Len(grouping)].resources

\* what a batch can leave in the directory of a position: a direct.pdf with
\* any body, or a rendered output.pdf
OutputDir(file) == [EmptyDir EXCEPT !.output = file]

DirectDir(file) == [EmptyDir EXCEPT !.direct = file]

AsmDirs == {OutputDir(PdfFile(1))} \cup {DirectDir(b) : b \in Bodies}

\* the cache in which the directory of position k - 1 exists for the k of
\* DOMAIN contents, and holds contents[k]
CacheOf(flat, contents) ==
    [d \in {DirName(k - 1, flat[k].url) : k \in DOMAIN contents} |->
        contents[CHOOSE k \in DOMAIN contents : d = DirName(k - 1, flat[k].url)]]

InitAssemble ==
    /\ \E grouping \in AsmGroupings :
         /\ manifest = [resources_by_unit |-> grouping,
                        resource_list_ordered |-> Flatten(grouping)]
         /\ \E present \in SUBSET (1..Len(Flatten(grouping))) :
              \E contents \in [present -> AsmDirs] :
                 /\ cache = CacheOf(Flatten(grouping), contents)
                 /\ made_for = [d \in DOMAIN CacheOf(Flatten(grouping), contents) |->
                                   CHOOSE url \in URLs : ShortHash(url) = d[2]]
    /\ BatchIdle
    /\ AsmIdle
    /\ ResolveIdle
    /\ StageIdle
    /\ subject_temp_dir = TRUE
    /\ QaIdle

NextAssemble ==
    \/ DiscoverParts
    \/ NothingToAssemble
    \/ OpenOutline
    \/ SkipUnit
    \/ AssembleUnit
    \/ SaveFinalPdf

SpecAssemble == InitAssemble /\ [][NextAssemble]_vars

(* ------ batches, a regenerated manifest, then assembly (SpecPipeline) --- *)
OtherUrl(url) == IF url = "a" THEN "b" ELSE "a"

\* positions (counted from 1) whose URL is no longer the one Init gave them
ChangedPositions == {k \in 1..Len(resources) : resources[k].url # UrlAt(k)}

\* discover.py is run again and writes a manifest in which the resource at
\* position p (counted from 0) has another URL, after a batch has finished;
\* at most MaxRegens positions are changed, each once
RegenerateManifest(p) ==
    /\ status = "finished"
    /\ p < Len(resources)
    /\ p + 1 \notin ChangedPositions
    /\ Cardinality(ChangedPositions) < MaxRegens
    /\ manifest' = BatchManifest(
           [k \in 1..Len(resources) |->
               IF k = p + 1
               THEN Resource(OtherUrl(resources[k].url), resources[k].type, resources[k].unit)
               ELSE resources[k]])
    /\ UNCHANGED <<cache, batchVars, asmVars, made_for, resolveVars, qaVars, stageVars>>

\* the manifests SpecPipeline starts from: resources that are rendered from
\* their URL (output.pdf) or fetched as they are (direct.pdf)
PipelineTypes == {"agrega_html", "pdf"}

InitPipeline ==
    /\ manifest \in {BatchManifest(flat) :
                        flat \in {l \in BatchLists :
                                    \A k \in 1..Len(l) : l[k].type \in PipelineTypes}}
    /\ cache = <<>>
    /\ made_for = <<>>
    /\ BatchIdle
    /\ AsmIdle
    /\ ResolveIdle
    /\ StageIdle
    /\ subject_temp_dir = FALSE
    /\ QaIdle

\* batches over the whole manifest and regenerations come first; the
\* discovery loop of assemble.py runs once no batch is running
NextPipeline ==
    \/ asm_pc = "idle" /\ StartBatch(0, Len(resources))
    \/ asm_pc = "idle" /\ FinishBatch
    \/ asm_pc = "idle" /\ SkipProcessed
    \/ asm_pc = "idle" /\ ClaimDirectory
    \/ asm_pc = "idle" /\ RenderLoad
    \/ asm_pc = "idle" /\ RenderLoadFails
    \/ asm_pc = "idle" /\ RenderCapture
    \/ asm_pc = "idle" /\ RenderCaptureFails
    \/ asm_pc = "idle" /\ RenderDump
    \/ asm_pc = "idle" /\ RenderDumpFails
    \/ asm_pc = "idle" /\ DirectPdfFetchError
    \/ asm_pc = "idle" /\ DirectPdfWrite
    \/ asm_pc = "idle" /\ DirectPdfValidate
    \/ asm_pc = "idle" /\ Interrupt
    \/ asm_pc = "idle" /\ \E p \in 0 .. (MaxRes - 1) : RegenerateManifest(p)
    \/ status # "running" /\ DiscoverParts

SpecPipeline == InitPipeline /\ [][NextPipeline]_vars

(* ------------- entry point resolution on its own (SpecResolve) --------- *)
\* every package over the conventional names and one other HTML file
AllPackages ==
    PackagesOver({ConventionalNames[k] : k \in DOMAIN ConventionalNames} \cup {"sco.html"})

\* process_scorm_zip, lines 95-108, for one extracted package
ResolvePackage(pkg) ==
    /\ package' = pkg
    /\ resolved' = ResolveEntryPoint(pkg)
    /\ UNCHANGED <<manifest, cache, batchVars, asmVars, made_for, qaVars, stageVars>>

InitResolve ==
    /\ manifest = BatchManifest(<<>>)
    /\ cache = <<>>
    /\ made_for = <<>>
    /\ BatchIdle
    /\ AsmIdle
    /\ ResolveIdle
    /\ StageIdle
    /\ subject_temp_dir = FALSE
    /\ QaIdle

NextResolve == \E pkg \in AllPackages : ResolvePackage(pkg)

SpecResolve == InitResolve /\ [][NextResolve]_vars

(* ------------------------------ qa.py ---------------------------------- *)
\* report[name] = entry
WithEntry(name, entry) ==
    [x \in DOMAIN report \cup {name} |-> IF x = name THEN entry ELSE report[x]]

\* a document of one page passing too
PageCountEntry_AtLeastOne(pdf_pages) ==
    [total_pages |-> Len(pdf_pages),
     passed |-> Len(pdf_pages) >= 1,
     message |-> <<"PDF has", Len(pdf_pages), "pages.">>]

\* check_page_count, lines 14-18
PageCountEntry(pdf_pages) ==
    [total_pages |-> Len(pdf_pages),
     passed |-> Len(pdf_pages) > 1,
     message |-> <<"PDF has", Len(pdf_pages), "pages.">>]

\* line 27 with > in place of >=
BookmarksPassed_Strict(num_top_level_bookmarks, num_units_in_manifest) ==
    num_top_level_bookmarks > num_units_in_manifest

\* line 27
BookmarksPassed(num_top_level_bookmarks, num_units_in_manifest) ==
    num_top_level_bookmarks >= num_units_in_manifest

\* lines 26-29: the entry when the outline was read
BookmarksEntry(root, num_units_in_manifest) ==
    [passed |-> BookmarksPassed(Len(root), num_units_in_manifest),
     message |-> <<"Found", Len(root), "top-level bookmarks, expected at least",
                   num_units_in_manifest>>,
     bookmarks_found |-> Len(root)]

\* the exception of open_outline leaves check_bookmarks
BookmarksOnError_Raises ==
    [raises |-> TRUE,
     entry |-> [passed |-> FALSE, message |-> <<"Error reading bookmarks">>,
                bookmarks_found |-> 0]]

\* lines 30-31: the exception of open_outline is caught and reported
BookmarksOnError ==
    [raises |-> FALSE,
     entry |-> [passed |-> FALSE, message |-> <<"Error reading bookmarks">>,
                bookmarks_found |-> 0]]

\* lines 45-48: check_text_density is a placeholder that passes
TextDensityEntry == [passed |-> TRUE, message |-> <<"SKIPPED">>]

\* lines 57-61: bookmarks_found after the loop over the first n unit nodes
RECURSIVE BookmarksFound(_, _)
BookmarksFound(root, n) ==
    IF n = 0 THEN 0 ELSE BookmarksFound(root, n - 1) + Len(root[n].children)

\* a coverage is the fraction num / den; den = 0 stands for ZeroDivisionError
DivisionError == [num |-> 0, den |-> 0]

\* line 65 without the test of total_resources
Coverage_Unguarded(bookmarks_found, total_resources) ==
    IF total_resources = 0 THEN DivisionError
    ELSE [num |-> bookmarks_found * 100, den |-> total_resources]

\* line 65: (bookmarks_found / total_resources) * 100 if total_resources > 0
\* else 0.  The quotient is kept exact: for counts below 2^26 the rounding of
\* the two floating-point operations does not move the result across 90.0
\* (9/10 * 100 evaluates to 90.0).
Coverage(bookmarks_found, total_resources) ==
    IF total_resources > 0
    THEN [num |-> bookmarks_found * 100, den |-> total_resources]
    ELSE [num |-> 0, den |-> 1]

\* line 66 with > in place of >=
CoveragePassed_Strict(coverage) == coverage.num > 90 * coverage.den

\* line 66: coverage >= 90.0
CoveragePassed(coverage) == coverage.num >= 90 * coverage.den

\* lines 68-72; the percentage printed in the message is left out
CoverageEntry(bookmarks_found, total_resources, coverage) ==
    [passed |-> CoveragePassed(coverage),
     message |-> <<"Found bookmarks for", bookmarks_found, total_resources>>,
     coverage_percentage |-> coverage]

\* final/CREA_<subject>.pdf exists once assemble.py has saved it (line 56)
FinalPdfExists == asm_pc = "done"

\* main, line 131: the merged document and the manifest exist
QaSetupOk == FinalPdfExists /\ manifest_file

\* main, lines 128-133: sys.exit(1) when the document or the manifest is
\* missing, before a report is made
QaSetupFails ==
    /\ qa_pc = "idle"
    /\ ~QaSetupOk
    /\ qa_pc' = "setup_failed"
    /\ UNCHANGED <<manifest, cache, batchVars, asmVars, made_for, resolveVars, stageVars, outline_ok, report>>

\* main, lines 137-145: the report is created and the document opened; the
\* keys 'subject' and 'pdf_file' are left out of the model's report
StartQa ==
    /\ qa_pc = "idle"
    /\ QaSetupOk
    /\ report' = NoReport
    /\ qa_pc' = "page_count"
    /\ UNCHANGED <<manifest, cache, batchVars, asmVars, made_for, resolveVars, stageVars, outline_ok>>

\* line 146
CheckPageCount ==
    /\ qa_pc = "page_count"
    /\ report' = WithEntry("page_count", PageCountEntry(final_pages))
    /\ qa_pc' = "bookmarks"
    /\ UNCHANGED <<manifest, cache, batchVars, asmVars, made_for, resolveVars, stageVars, outline_ok>>

\* line 147: check_bookmarks, lines 21-33
CheckBookmarks ==
    /\ qa_pc = "bookmarks"
    /\ IF outline_ok
       THEN /\ report' = WithEntry("bookmarks", BookmarksEntry(outline, Len(units)))
            /\ qa_pc' = "text_density"
       ELSE IF BookmarksOnError.raises
       THEN /\ qa_pc' = "crashed"
            /\ UNCHANGED report
       ELSE /\ report' = WithEntry("bookmarks", BookmarksOnError.entry)
            /\ qa_pc' = "text_density"
    /\ UNCHANGED <<manifest, cache, batchVars, asmVars, made_for, resolveVars, stageVars, outline_ok>>

\* line 148
CheckTextDensity ==
    /\ qa_pc = "text_density"
    /\ report' = WithEntry("text_density", TextDensityEntry)
    /\ qa_pc' = "resource_coverage"
    /\ UNCHANGED <<manifest, cache, batchVars, asmVars, made_for, resolveVars, stageVars, outline_ok>>

\* line 149: check_resource_coverage, lines 52-73; when open_outline raises,
\* bookmarks_found stays 0 (lines 62-63)
CheckResourceCoverage ==
    /\ qa_pc = "resource_coverage"
    /\ LET total_resources == Len(resources)
           bookmarks_found == IF outline_ok
                              THEN BookmarksFound(outline, Len(outline)) ELSE 0
           coverage == Coverage(bookmarks_found, total_resources)
       IN  IF coverage = DivisionError
           THEN /\ qa_pc' = "crashed"
                /\ UNCHANGED report
           ELSE /\ report' = WithEntry("resource_coverage",
                                  CoverageEntry(bookmarks_found, total_resources, coverage))
                /\ qa_pc' = "save"
    /\ UNCHANGED <<manifest, cache, batchVars, asmVars, made_for, resolveVars, stageVars, outline_ok>>

\* lines 151-161: the report is written as JSON and as HTML
SaveReports ==
    /\ qa_pc = "save"
    /\ qa_pc' = "done"
    /\ UNCHANGED <<manifest, cache, batchVars, asmVars, made_for, resolveVars, stageVars, outline_ok, report>>

(* manifests and documents SpecQa starts from *)
\* a manifest of n units and total resources: units 2..n have one resource,
\* the first one has the others (discover.py keeps no unit without resources)
QaUnitSize(n, total, u) == IF u = 1 THEN total - (n - 1) ELSE 1

QaGrouping(n, total) ==
    [u \in 1..n |->
        [name |-> u,
         resources |-> [r \in 1..QaUnitSize(n, total, u) |-> Resource(UrlAt(r), "pdf", u)]]]

QaManifests ==
    UNION {{[resources_by_unit |-> QaGrouping(n, total),
             resource_list_ordered |-> Flatten(QaGrouping(n, total))] :
               total \in {t \in 0..MaxQaRes : IF n = 0 THEN t = 0 ELSE t >= n}} :
           n \in 0..MaxUnits}

\* an outline of k unit nodes and found resource nodes: the last of two or
\* more unit nodes has one of them, the first one has the others
QaChildren(k, found, j) ==
    IF k >= 2 /\ found >= 1
    THEN IF j = 1 THEN found - 1 ELSE IF j = k THEN 1 ELSE 0
    ELSE IF j = 1 THEN found ELSE 0

QaOutline(k, found) ==
    [j \in 1..k |->
        [unit |-> j, title |-> j, page |-> 0,
         children |-> [c \in 1..QaChildren(k, found, j) |-> [item |-> c, page |-> 0]]]]

QaOutlines ==
    UNION {{QaOutline(k, found) : found \in {f \in 0..MaxQaRes : k = 0 => f = 0}} :
           k \in 0..MaxUnits}

\* a document of n pages
QaPages(n) ==
    [j \in 1..n |-> [path |-> PartPath(DirName(0, "a"), "output.pdf"), n |-> j]]

\* qa.py is given a manifest and a document that opens: it need not be the
\* one assemble.py makes of this manifest
InitQa ==
    /\ manifest \in QaManifests
    /\ cache = <<>>
    /\ made_for = <<>>
    /\ BatchIdle
    /\ asm_pc = "done"
    /\ found_parts = <<>>
    /\ unit_idx = 0
    /\ page_offset = 0
    /\ final_pages \in {QaPages(n) : n \in 0..MaxPages}
    /\ outline \in QaOutlines
    /\ ResolveIdle
    /\ StageIdle
    /\ subject_temp_dir = TRUE
    /\ outline_ok \in BOOLEAN
    /\ report = NoReport
    /\ qa_pc = "idle"

NextQa ==
    \/ StartQa
    \/ CheckPageCount
    \/ CheckBookmarks
    \/ CheckTextDensity
    \/ CheckResourceCoverage
    \/ SaveReports

SpecQa == InitQa /\ [][NextQa]_vars

(* ---- materialize, assemble, verify one after the other (SpecStages) --- *)
\* the manifests SpecStages starts from: at most MaxRes 'pdf' resources in
\* at most MaxUnits units, none of them without resources
StageManifests ==
    UNION {{[resources_by_unit |-> QaGrouping(n, total),
             resource_list_ordered |-> Flatten(QaGrouping(n, total))] :
               total \in {t \in 0..MaxRes : IF n = 0 THEN t = 0 ELSE t >= n}} :
           n \in 0..MaxUnits}

\* the three commands are run for a subject whose manifest file exists or
\* not and whose temp directory exists (empty) or not
InitStages ==
    /\ manifest \in StageManifests
    /\ cache = <<>>
    /\ made_for = <<>>
    /\ BatchIdle
    /\ AsmIdle
    /\ ResolveIdle
    /\ QaIdle
    /\ DiscIdle
    /\ DlIdle
    /\ manifest_file \in BOOLEAN
    /\ subject_temp_dir \in BOOLEAN

\* batches come first, assemble.py runs once no batch is running, qa.py
\* once assemble.py has ended
BatchTurn == asm_pc = "idle"

AsmTurn == status # "running"

QaTurn == asm_pc \in {"done", "nothing", "setup_failed"}

NextStages ==
    \/ BatchTurn /\ BatchSetupFails
    \/ BatchTurn /\ StartBatch(0, Len(resources))
    \/ BatchTurn /\ FinishBatch
    \/ BatchTurn /\ SkipProcessed
    \/ BatchTurn /\ ClaimDirectory
    \/ BatchTurn /\ DirectPdfFetchError
    \/ BatchTurn /\ DirectPdfWrite
    \/ BatchTurn /\ DirectPdfValidate
    \/ AsmTurn /\ AsmSetupFails
    \/ AsmTurn /\ DiscoverParts
    \/ NothingToAssemble
    \/ OpenOutline
    \/ SkipUnit
    \/ AssembleUnit
    \/ SaveFinalPdf
    \/ QaTurn /\ QaSetupFails
    \/ QaTurn /\ StartQa
    \/ CheckPageCount
    \/ CheckBookmarks
    \/ CheckTextDensity
    \/ CheckResourceCoverage
    \/ SaveReports

SpecStages == InitStages /\ [][NextStages]_vars

(* ---------------------------- discover.py ------------------------------ *)
\* the unit numbers find_unit_urls can match on the subject page (line 62):
\* "Unidad 1", "Unidad 2" and "Unidad 10"
UnitNumbers == {1, 2, 10}

\* str(n) for a number below 100: its decimal digits
Digits(n) == IF n < 10 THEN <<n>> ELSE <<n \div 10, n % 10>>

\* Python's order on strings, here on the digits that follow "Unidad "
RECURSIVE LexLess(_, _)
LexLess(s, t) ==
    IF s = <<>> THEN t # <<>>
    ELSE IF t = <<>> THEN FALSE
    ELSE IF Head(s) # Head(t) THEN Head(s) < Head(t)
    ELSE LexLess(Tail(s), Tail(t))

\* sorted(...) of lines 156 and 163 on unit names: ascending as strings, so
\* that "Unidad 10" comes before "Unidad 2"
RECURSIVE SortedNames(_)
SortedNames(names) ==
    IF names = {} THEN <<>>
    ELSE LET least == CHOOSE m \in names :
                         \A n \in names \ {m} : LexLess(Digits(m), Digits(n))
         IN  <<least>> \o SortedNames(names \ {least})

\* sorted(resources_by_unit.items()): the units in ascending order of name
SortedItems(rbu) ==
    LET names == SortedNames({rbu[k].name : k \in DOMAIN rbu})
    IN  [k \in DOMAIN rbu |-> rbu[CHOOSE j \in DOMAIN rbu : rbu[j].name = names[k]]]

\* the units taken in descending order of name
FlatResourceList_Descending(rbu) ==
    Flatten([k \in DOMAIN rbu |-> SortedItems(rbu)[Len(rbu) + 1 - k]])

\* line 163: flat_resource_list
FlatResourceList(rbu) == Flatten(SortedItems(rbu))

\* what extract_resources_from_unit_page returns: at most MaxPerUnit
\* resources whose URLs differ (processed_urls, lines 102-108, 127)
PageResources ==
    UNION {{l \in [1..n -> URLs] : \A x, y \in 1..n : l[x] = l[y] => x = y} :
           n \in 0..MaxPerUnit}

\* main, lines 151-153: find_unit_urls; no unit found is exit 1
FindUnits ==
    /\ disc_pc = "idle"
    /\ \E found \in {s \in SUBSET UnitNumbers : Cardinality(s) <= MaxUnits} :
         /\ unit_urls_map' = found
         /\ disc_pc' = IF found = {} THEN "failed" ELSE "units"
    /\ by_unit' = <<>>
    /\ disc_k' = 0
    /\ UNCHANGED <<manifest, cache, batchVars, asmVars, made_for, resolveVars, qaVars, setupVars, dlVars>>

\* main, lines 156-161: the next unit in sorted order; its resources get the
\* unit name, a unit without resources gets no key
ExtractUnit ==
    /\ disc_pc = "units"
    /\ disc_k < Cardinality(unit_urls_map)
    /\ LET unit_name == SortedNames(unit_urls_map)[disc_k + 1]
       IN  \E l \in PageResources :
              by_unit' = IF l = <<>> THEN by_unit
                         ELSE Append(by_unit,
                                [name |-> unit_name,
                                 resources |-> [r \in DOMAIN l |->
                                                  Resource(l[r], "pdf", unit_name)]])
    /\ disc_k' = disc_k + 1
    /\ UNCHANGED <<manifest, cache, batchVars, asmVars, made_for, resolveVars, qaVars, setupVars, dlVars,
                   unit_urls_map, disc_pc>>

\* main, lines 163-174: the manifest is built and written
WriteManifest ==
    /\ disc_pc = "units"
    /\ disc_k = Cardinality(unit_urls_map)
    /\ manifest' = [resources_by_unit |-> by_unit,
                    resource_list_ordered |-> FlatResourceList(by_unit)]
    /\ manifest_file' = TRUE
    /\ disc_pc' = "written"
    /\ UNCHANGED <<cache, batchVars, asmVars, made_for, resolveVars, qaVars, subject_temp_dir, dlVars,
                   unit_urls_map, by_unit, disc_k>>

\* no manifest has been written for the subject yet
InitDiscover ==
    /\ manifest = BatchManifest(<<>>)
    /\ cache = <<>>
    /\ made_for = <<>>
    /\ BatchIdle
    /\ AsmIdle
    /\ ResolveIdle
    /\ QaIdle
    /\ DiscIdle
    /\ DlIdle
    /\ manifest_file = FALSE
    /\ subject_temp_dir = FALSE

NextDiscover ==
    \/ FindUnits
    \/ ExtractUnit
    \/ WriteManifest

SpecDiscover == InitDiscover /\ [][NextDiscover]_vars

(* ------ batches with any integers as --start and --count (SpecArgs) ---- *)
\* line 146: resources[i] raises IndexError for an i below -len(resources);
\* the statement is outside the try of line 161, the exception ends the process
ResourceIndexError ==
    /\ status = "running" /\ pc = "head"
    /\ i < end_index
    /\ ~InRange(resources, i)
    /\ status' = "crashed"
    /\ netOp' = NoOp
    /\ UNCHANGED <<manifest, cache, start_index, end_index, i, pc, target, result, runs, removed, mathjax, asmVars,
                   made_for, resolveVars, qaVars, stageVars>>

\* argparse's type=int accepts negative numbers too (lines 177-178)
ArgStarts == (0 - MaxRes - 1) .. MaxRes

ArgCounts == (0 - 1) .. (MaxRes + 1)

\* manifests of 'pdf' resources, an empty cache
InitArgs ==
    /\ manifest \in {BatchManifest(flat) :
                        flat \in {l \in BatchLists :
                                    \A k \in 1..Len(l) : l[k].type = "pdf"}}
    /\ cache = <<>>
    /\ made_for = <<>>
    /\ BatchIdle
    /\ AsmIdle
    /\ ResolveIdle
    /\ StageIdle
    /\ subject_temp_dir = FALSE
    /\ QaIdle

NextArgs ==
    \/ \E s \in ArgStarts, c \in ArgCounts : StartBatch(s, c)
    \/ FinishBatch
    \/ ResourceIndexError
    \/ SkipProcessed
    \/ ClaimDirectory
    \/ DirectPdfFetchError
    \/ DirectPdfWrite
    \/ DirectPdfValidate

SpecArgs == InitArgs /\ [][NextArgs]_vars

(* ---------------------------- download.py ------------------------------ *)
MAX_RETRIES == 3

RETRY_BACKOFF_SECONDS == <<2, 8, 30>>

\* URLs of manifest_discovery.json: two that contain "downloadIms" (line 37)
\* and one that does not
PackageUrls == {"pkg1?downloadIms", "pkg2?downloadIms"}

DlUrls == PackageUrls \cup {"page"}

\* the resource main's loop is at
CurrentUrl == dl_manifest[dl_k + 1]

\* sleeping after the last attempt as well
ShouldBackoff_AfterEvery(failed) == TRUE

\* line 70: a sleep follows a failed attempt unless it was the last one
ShouldBackoff(failed) == failed < MAX_RETRIES - 1

\* checksums.json: missing, a JSON object (url -> sha256 field), or the empty
\* file that open(..., 'w') leaves until json.dump has written
ChecksumsFile(state, entries) == [state |-> state, entries |-> entries]

\* line 95: the resource is skipped as already downloaded
AlreadyDownloaded(url) ==
    url \in DOMAIN checksums /\ checksums[url] # "download_failed"

\* checksums[url] = entry
WithChecksum(url, sha256) ==
    [x \in DOMAIN checksums \cup {url} |-> IF x = url THEN sha256 ELSE checksums[x]]

\* main, lines 82-92: the manifest and checksums.json are loaded; json.load
\* raises on a file that is not JSON
StartDownload ==
    /\ dl_pc \in {"idle", "done", "interrupted", "crashed"}
    /\ dl_runs < MaxRuns
    /\ dl_runs' = dl_runs + 1
    /\ dl_k' = 0
    /\ IF checksums_file.state = "empty"
       THEN dl_pc' = "crashed" /\ checksums' = <<>>
       ELSE dl_pc' = "loop" /\ checksums' = checksums_file.entries
    /\ UNCHANGED <<manifest, cache, batchVars, asmVars, made_for, resolveVars, qaVars, setupVars, discVars,
                   dl_manifest, checksums_file, attempt, slept, wgets, dl_result>>

\* main, lines 95-97
SkipDownloaded ==
    /\ dl_pc = "loop"
    /\ dl_k < Len(dl_manifest)
    /\ AlreadyDownloaded(CurrentUrl)
    /\ dl_k' = dl_k + 1
    /\ UNCHANGED <<manifest, cache, batchVars, asmVars, made_for, resolveVars, qaVars, setupVars, discVars,
                   dl_manifest, checksums_file, checksums, dl_pc, attempt, slept, wgets, dl_result, dl_runs>>

\* main, line 99, and download_file, lines 28-48: a URL that is not a
\* package download returns at once
CallDownloadFile ==
    /\ dl_pc = "loop"
    /\ dl_k < Len(dl_manifest)
    /\ ~AlreadyDownloaded(CurrentUrl)
    /\ attempt' = 0
    /\ slept' = <<>>
    /\ wgets' = 0
    /\ IF CurrentUrl \in PackageUrls
       THEN dl_pc' = "wget" /\ dl_result' = None
       ELSE dl_pc' = "record" /\ dl_result' = "skipped_not_a_package"
    /\ UNCHANGED <<manifest, cache, batchVars, asmVars, made_for, resolveVars, qaVars, setupVars, discVars,
                   dl_manifest, checksums_file, checksums, dl_k, dl_runs>>

\* download_file, lines 50-62: wget exits with 0; the file name is found in
\* its output or not
WgetSucceeds ==
    /\ dl_pc = "wget"
    /\ attempt < MAX_RETRIES
    /\ wgets' = wgets + 1
    /\ \E status_returned \in {"downloaded", "failed_to_get_filename"} :
         dl_result' = status_returned
    /\ dl_pc' = "record"
    /\ UNCHANGED <<manifest, cache, batchVars, asmVars, made_for, resolveVars, qaVars, setupVars, discVars,
                   dl_manifest, checksums_file, checksums, dl_k, attempt, slept, dl_runs>>

\* download_file, lines 50-73: wget fails or times out, then the backoff
WgetFails ==
    /\ dl_pc = "wget"
    /\ attempt < MAX_RETRIES
    /\ wgets' = wgets + 1
    /\ slept' = IF ShouldBackoff(attempt)
                THEN Append(slept, RETRY_BACKOFF_SECONDS[attempt + 1])
                ELSE slept
    /\ attempt' = attempt + 1
    /\ UNCHANGED <<manifest, cache, batchVars, asmVars, made_for, resolveVars, qaVars, setupVars, discVars,
                   dl_manifest, checksums_file, checksums, dl_k, dl_pc, dl_result, dl_runs>>

\* download_file, lines 75-76: range(MAX_RETRIES) is exhausted
GiveUp ==
    /\ dl_pc = "wget"
    /\ attempt >= MAX_RETRIES
    /\ dl_result' = "failed_after_retries"
    /\ dl_pc' = "record"
    /\ UNCHANGED <<manifest, cache, batchVars, asmVars, made_for, resolveVars, qaVars, setupVars, discVars,
                   dl_manifest, checksums_file, checksums, dl_k, attempt, slept, wgets, dl_runs>>

\* main, lines 101-114: the entry of the resource; the saved file may be
\* missing (line 101); the locals of download_file are gone
RecordResult ==
    /\ dl_pc = "record"
    /\ \E saved \in BOOLEAN :
         checksums' =
            IF dl_result = "downloaded" /\ saved
            THEN WithChecksum(CurrentUrl, "sha256")
            ELSE IF dl_result # "skipped_not_a_package"
            THEN WithChecksum(CurrentUrl, "download_failed")
            ELSE checksums
    /\ dl_pc' = "open_checksums"
    /\ attempt' = 0
    /\ slept' = <<>>
    /\ wgets' = 0
    /\ dl_result' = None
    /\ UNCHANGED <<manifest, cache, batchVars, asmVars, made_for, resolveVars, qaVars, setupVars, discVars,
                   dl_manifest, checksums_file, dl_k, dl_runs>>

\* main, line 117: open(CHECKSUMS_FILE, 'w') creates or truncates the file
OpenChecksums ==
    /\ dl_pc = "open_checksums"
    /\ checksums_file' = ChecksumsFile("empty", <<>>)
    /\ dl_pc' = "dump"
    /\ UNCHANGED <<manifest, cache, batchVars, asmVars, made_for, resolveVars, qaVars, setupVars, discVars,
                   dl_manifest, checksums, dl_k, attempt, slept, wgets, dl_result, dl_runs>>

\* main, line 118: json.dump writes the dictionary, the file is closed
DumpChecksums ==
    /\ dl_pc = "dump"
    /\ checksums_file' = ChecksumsFile("json", checksums)
    /\ dl_k' = dl_k + 1
    /\ dl_pc' = "loop"
    /\ UNCHANGED <<manifest, cache, batchVars, asmVars, made_for, resolveVars, qaVars, setupVars, discVars,
                   dl_manifest, checksums, attempt, slept, wgets, dl_result, dl_runs>>

\* main, line 120: the loop over the resources is over
FinishDownload ==
    /\ dl_pc = "loop"
    /\ dl_k >= Len(dl_manifest)
    /\ dl_pc' = "done"
    /\ UNCHANGED <<manifest, cache, batchVars, asmVars, made_for, resolveVars, qaVars, setupVars, discVars,
                   dl_manifest, checksums_file, checksums, dl_k, attempt, slept, wgets, dl_result, dl_runs>>

\* the download process is killed between two statements
InterruptDownload ==
    /\ dl_pc \in {"loop", "wget", "record", "open_checksums", "dump"}
    /\ dl_pc' = "interrupted"
    /\ UNCHANGED <<manifest, cache, batchVars, asmVars, made_for, resolveVars, qaVars, setupVars, discVars,
                   dl_manifest, checksums_file, checksums, dl_k, attempt, slept, wgets, dl_result, dl_runs>>

\* a manifest of at most MaxRes resources, no checksums.json yet
InitDownload ==
    /\ manifest = BatchManifest(<<>>)
    /\ cache = <<>>
    /\ made_for = <<>>
    /\ BatchIdle
    /\ AsmIdle
    /\ ResolveIdle
    /\ QaIdle
    /\ DiscIdle
    /\ manifest_file = TRUE
    /\ subject_temp_dir = FALSE
    /\ dl_manifest \in UNION {[1..n -> DlUrls] : n \in 0..MaxRes}
    /\ checksums_file = NoChecksumsFile
    /\ checksums = <<>>
    /\ dl_k = 0
    /\ dl_pc = "idle"
    /\ attempt = 0
    /\ slept = <<>>
    /\ wgets = 0
    /\ dl_result = None
    /\ dl_runs = 0

NextDownload ==
    \/ StartDownload
    \/ SkipDownloaded
    \/ CallDownloadFile
    \/ WgetSucceeds
    \/ WgetFails
    \/ GiveUp
    \/ RecordResult
    \/ OpenChecksums
    \/ DumpChecksums
    \/ FinishDownload
    \/ InterruptDownload

SpecDownload == InitDownload /\ [][NextDownload]_vars

(* ===================== claims on the batch (Spec) ====================== *)
\* output.pdf or direct.pdf is in directory d: the completion marker
ArtifactPresent(d) == OutputPdf(d) # NoFile \/ DirectPdf(d) # NoFile

\* outcomes that are a failed materialization
Failures == {"exception", "invalid_artifact", "no_entry_point", "render_failed"}

\* outcomes of a position the loop has dealt with
Processed == Failures \cup {"ok", "skipped", "unhandled_type"}

\* C1: once a run has left output.pdf or direct.pdf in a resource's cache
\* directory, no step of a batch fetches or renders for that directory or
\* changes its content: a second run over the same position and URL skips it
\* and leaves the artifact as it is.
C1_MaterializedAtMostOnce ==
    [][\A d \in DOMAIN cache :
          ArtifactPresent(d) =>
              (d \in DOMAIN cache' /\ cache'[d] = cache[d] /\ netOp' # d)]_vars

\* a second run has skipped a position whose artifact a first run left
C1_Witness ==
    /\ runs >= 2
    /\ \E p \in 0 .. (Len(resources) - 1) :
          /\ ResultAt(p) = "skipped"
          /\ ArtifactPresent(ResourceTempDir(p))

\* C2: a 'pdf' resource whose body does not open as a PDF fails and leaves no
\* artifact file, in particular no direct.pdf, in its cache directory.
C2_InvalidPdfLeavesNoArtifact ==
    \A p \in DOMAIN result :
        ResultAt(p) = "invalid_artifact" => ~ArtifactPresent(ResourceTempDir(p))

\* C3: a resource whose materialization failed (fetch error, invalid PDF,
\* unresolved entry point, render failure) has neither output.pdf nor
\* direct.pdf in its cache directory, so the next run does not skip it.
C3_FailureLeavesNoArtifact ==
    \A p \in DOMAIN result :
        ResultAt(p) \in Failures =>
            /\ OutputPdf(ResourceTempDir(p)) = NoFile
            /\ DirectPdf(ResourceTempDir(p)) = NoFile

\* C4: a batch interrupted while a resource is being materialized never
\* leaves that resource's cache directory showing it as complete.
C4_InterruptedNeverComplete ==
    (status = "interrupted" /\ pc # "head")
        => ~ArtifactPresent(ResourceTempDir(i))

\* C5: a failure at position p is caught at that position: the batch has not
\* aborted and the loop has moved past p; a batch that reached line 171 has
\* dealt with every position of start_index .. end_index - 1.
C5_FailureIsolation ==
    /\ status # "crashed"
    /\ \A p \in DOMAIN result : ResultAt(p) \in Failures => i > p
    /\ status = "finished" =>
          \A p \in start_index .. (end_index - 1) : ResultAt(p) \in Processed

\* a finished batch in which a position raised and the next one was still processed
C5_Witness ==
    /\ status = "finished"
    /\ \E p \in DOMAIN result :
          /\ p + 1 < end_index
          /\ ResultAt(p) = "exception"
          /\ ResultAt(p + 1) \in Processed

(* ================= claims on the assembler (SpecAssemble) ============== *)
\* index in resource_list_ordered of resource r of unit u
RECURSIVE FlatIndex(_, _)
FlatIndex(u, r) ==
    IF u = 1 THEN r ELSE Len(units[u - 1].resources) + FlatIndex(u - 1, r)

\* the artifact file of the cache directory of resource r of unit u
ArtifactPath(u, r) ==
    LET dirname == DirName(FlatIndex(u, r) - 1, units[u].resources[r].url)
    IN  IF OutputPdf(dirname) # NoFile
        THEN PartPath(dirname, "output.pdf")
        ELSE PartPath(dirname, "direct.pdf")

Discovered(u, r) == FileAt(ArtifactPath(u, r)) # NoFile

Corrupt(u, r) == Discovered(u, r) /\ ~Opens(FileAt(ArtifactPath(u, r)))

Usable(u, r) == Discovered(u, r) /\ Opens(FileAt(ArtifactPath(u, r)))

UnitIndices == 1 .. Len(units)

ResourceIndices(u) == 1 .. Len(units[u].resources)

\* pages of the usable artifacts of resources r.. of unit u, in list order
RECURSIVE UnitPagesFrom(_, _)
UnitPagesFrom(u, r) ==
    IF r > Len(units[u].resources) THEN <<>>
    ELSE (IF Usable(u, r) THEN SrcPages(ArtifactPath(u, r)) ELSE <<>>)
           \o UnitPagesFrom(u, r + 1)

\* pages of the usable artifacts of units u.., in manifest order
RECURSIVE ManifestPagesFrom(_)
ManifestPagesFrom(u) ==
    IF u > Len(units) THEN <<>>
    ELSE UnitPagesFrom(u, 1) \o ManifestPagesFrom(u + 1)

\* number of pages of the usable artifacts that precede resource r of unit u
RECURSIVE PagesBefore(_, _)
PagesBefore(u, r) ==
    IF r > 1
    THEN PagesBefore(u, r - 1)
           + (IF Usable(u, r - 1) THEN FileAt(ArtifactPath(u, r - 1)).pages ELSE 0)
    ELSE IF u > 1
    THEN PagesBefore(u - 1, Len(units[u - 1].resources) + 1)
    ELSE 0

UnitNodes(u) == {j \in 1..Len(outline) : outline[j].unit = u}

HasResourceNode(u, r) ==
    \E j \in UnitNodes(u) :
        \E k \in 1..Len(outline[j].children) : outline[j].children[k].item = r

C7_TargetsAreValidPages ==
    asm_pc = "done" =>
        \A j \in 1..Len(outline) :
            /\ 0 <= outline[j].page /\ outline[j].page < Len(final_pages)
            /\ outline[j].children # <<>> =>
                   outline[j].page = outline[j].children[1].page
            /\ \A k \in 1..Len(outline[j].children) :
                   /\ 0 <= outline[j].children[k].page
                   /\ outline[j].children[k].page < Len(final_pages)
                   /\ final_pages[outline[j].children[k].page + 1].n = 1

C9_CorruptLikeMissing ==
    asm_pc = "done" =>
        /\ \A u \in UnitIndices : \A r \in ResourceIndices(u) :
              Corrupt(u, r) =>
                  /\ ~HasResourceNode(u, r)
                  /\ \A n \in 1..Len(final_pages) :
                        final_pages[n].path # ArtifactPath(u, r)
        /\ \A u \in UnitIndices :
              (\A r \in ResourceIndices(u) : ~Usable(u, r)) => UnitNodes(u) = {}

\* C10: a unit without any discovered artifact has no unit node, and no unit
\* node is without a resource child.
C10_NoEmptyUnitNode ==
    asm_pc = "done" =>
        /\ \A u \in UnitIndices :
              (\A r \in ResourceIndices(u) : ~Discovered(u, r)) => UnitNodes(u) = {}
        /\ \A j \in 1..Len(outline) : outline[j].children # <<>>

C12_NoEntryPointNoRender ==
    /\ (pc = "render_load" /\ PyIndex(resources, i).type = "scorm_zip")
            => target.exists
    /\ \A p \in DOMAIN result :
            ResultAt(p) = "no_entry_point" => ~ArtifactPresent(ResourceTempDir(p))

\* exactly one of output.pdf and direct.pdf is in directory d
ExactlyOneArtifact(d) == (OutputPdf(d) # NoFile) # (DirectPdf(d) # NoFile)

\* outcomes of an attempt that is over (the resource was not skipped)
Attempted == Processed \ {"skipped"}

\* C14: an attempt that is over has left exactly one artifact file in the
\* cache directory, or has reported a failure and left no artifact, whatever
\* the resource's type.
C14_ArtifactOrReportedFailure ==
    \A p \in DOMAIN result :
        ResultAt(p) \in Attempted =>
            \/ ExactlyOneArtifact(ResourceTempDir(p))
            \/ ResultAt(p) \in Failures /\ ~ArtifactPresent(ResourceTempDir(p))

(* ========== claims on the entry point resolution (SpecResolve) ========= *)
\* the href declared in imsmanifest.xml, None without manifest or match
DeclaredHref == IF package.hasManifest THEN package.href ELSE None

\* the conventional filenames in the order the claim gives
ClaimedOrder == <<"index.html", "index.htm", "main.html", "content.html", "start.html">>

\* C13: the resolved entry point is the declared href when that file is in
\* the package; otherwise, when one of index.html, index.htm, main.html,
\* content.html, start.html is in the package, it is the first of them, in
\* this order, that is.
C13_EntryPointOrder ==
    IF DeclaredHref # None /\ DeclaredHref \in package.files
    THEN resolved = DeclaredHref
    ELSE \A k \in 1..Len(ClaimedOrder) :
            (/\ ClaimedOrder[k] \in package.files
             /\ \A j \in 1..(k - 1) : ClaimedOrder[j] \notin package.files)
                => resolved = ClaimedOrder[k]

\* the declared file is missing, index.html too, and of index.htm and
\* main.html, both present, index.htm was taken
C13_Witness ==
    /\ DeclaredHref = "sco.html"
    /\ package.files = {"index.htm", "main.html"}
    /\ resolved = "index.htm"

(* ============ claims on the cache addressing (SpecPipeline) ============ *)
\* the discovery loop of assemble.py has a part for position p
HasPart(p) ==
    \E k \in 1..Len(found_parts) :
        /\ found_parts[k].path.dir = ResourceTempDir(p)
        /\ found_parts[k].resource = PyIndex(resources, p)

PositionsOf(seq) == 0 .. (Len(seq) - 1)

\* C15: the assembler's discovery loop names the directory of position p as
\* the batch does, so after discovery there is a part for p exactly when a
\* batch left output.pdf or direct.pdf in the directory the batch computes
\* for p, and nothing else is found.
C15_SameDirectoryName ==
    asm_pc # "idle" =>
        /\ \A p \in PositionsOf(resources) :
              HasPart(p) <=> ArtifactPresent(ResourceTempDir(p))
        /\ Len(found_parts)
              = Cardinality({p \in PositionsOf(resources) :
                                ArtifactPresent(ResourceTempDir(p))})

\* after batches, discovery found a part for one position and none for another
C15_Witness ==
    /\ asm_pc # "idle"
    /\ runs >= 1
    /\ \E p, q \in PositionsOf(resources) : HasPart(p) /\ ~HasPart(q)

\* C16: an artifact is taken for the resource at position p, by the skip
\* test of a batch or by the assembler's discovery, only when its directory
\* was claimed for the URL the manifest now has at p.
C16_ChangedUrlNotReused ==
    /\ \A p \in PositionsOf(resources) :
          AlreadyProcessed(ResourceTempDir(p))
              => made_for[ResourceTempDir(p)] = PyIndex(resources, p).url
    /\ \A k \in 1..Len(found_parts) :
          made_for[found_parts[k].path.dir] = found_parts[k].resource.url

\* position p has an artifact cached for the URL it had before the manifest
\* was regenerated, and discovery found no part for p
C16_Witness ==
    /\ asm_pc # "idle"
    /\ \E p \in PositionsOf(resources) :
          /\ ArtifactPresent(DirName(p, OtherUrl(PyIndex(resources, p).url)))
          /\ ~HasPart(p)

(* ==================== claims on the verifier (SpecQa) ================== *)
\* the resource nodes of the document: (unit node, child) pairs
ResourceNodes ==
    UNION {{<<j, k>> : k \in 1..Len(outline[j].children)} : j \in 1..Len(outline)}

Checks == {"page_count", "bookmarks", "text_density", "resource_coverage"}

\* C17: for a manifest with resources and a readable outline, the coverage
\* check passes exactly when 10 * found >= 9 * total, found being the number
\* of second-level nodes over all unit nodes, and the reported coverage is
\* found / total * 100.
C17_CoverageThreshold ==
    (qa_pc = "done" /\ outline_ok /\ Len(resources) > 0) =>
        LET found == Cardinality(ResourceNodes)
            total == Len(resources)
            entry == report["resource_coverage"]
        IN  /\ entry.passed <=> (10 * found >= 9 * total)
            /\ entry.coverage_percentage.num * total
                  = found * 100 * entry.coverage_percentage.den

\* 9 resource nodes for 10 resources: 90%, passed
C17_Witness ==
    /\ qa_pc = "done" /\ outline_ok
    /\ Len(resources) = 10
    /\ Cardinality(ResourceNodes) = 9
    /\ Len(outline) = 2
    /\ report["resource_coverage"].passed

\* C18: with a manifest without resources the coverage check does not raise
\* and reports a coverage of 0 and passed = false.
C18_ZeroResources ==
    /\ qa_pc # "crashed"
    /\ (qa_pc = "done" /\ Len(resources) = 0) =>
          /\ report["resource_coverage"].coverage_percentage.num = 0
          /\ report["resource_coverage"].coverage_percentage.den # 0
          /\ report["resource_coverage"].passed = FALSE

\* verification is over for a manifest without resources and a document
\* with resource nodes
C18_Witness ==
    /\ qa_pc = "done" /\ outline_ok
    /\ Len(resources) = 0
    /\ Cardinality(ResourceNodes) > 0
    /\ "resource_coverage" \in DOMAIN report

\* C19: with a readable outline the bookmark check passes exactly when the
\* document has at least as many top-level nodes as the manifest has units.
C19_BookmarksAtLeastUnits ==
    (qa_pc = "done" /\ outline_ok) =>
        (report["bookmarks"].passed <=> Len(outline) >= Len(units))

\* as many unit nodes as units, at least one: passed
C19_Witness ==
    /\ qa_pc = "done" /\ outline_ok
    /\ Len(units) >= 1
    /\ Len(outline) = Len(units)
    /\ report["bookmarks"].passed

\* C20: verification never stops on a check: once it is over the report has
\* an entry with a passed flag and a message for each of the four checks,
\* whatever the other checks found, and with an unreadable outline the
\* bookmark and coverage entries say passed = false.
C20_EveryCheckReported ==
    /\ qa_pc # "crashed"
    /\ qa_pc = "done" =>
          /\ DOMAIN report = Checks
          /\ \A c \in Checks :
                report[c].passed \in BOOLEAN /\ report[c].message # <<>>
          /\ ~outline_ok =>
                /\ report["bookmarks"].passed = FALSE
                /\ report["resource_coverage"].passed = FALSE

\* the outline could not be read, the page count check failed, and the
\* checks after them still ran
C20_Witness ==
    /\ qa_pc = "done" /\ ~outline_ok
    /\ report["page_count"].passed = FALSE
    /\ report["text_density"].passed
    /\ "resource_coverage" \in DOMAIN report

(* ============ claims on the three commands (SpecStages) ================ *)
\* a command has ended with a non-zero exit: sys.exit(1), or an exception
\* that no handler caught
BatchExitsNonZero == status \in {"setup_failed", "crashed"}

AsmExitsNonZero == asm_pc = "setup_failed"

QaExitsNonZero == qa_pc \in {"setup_failed", "crashed"}

\* nothing has been written: no cache directory, no merged document, no report
NothingWritten ==
    /\ cache = <<>>
    /\ asm_pc # "done"
    /\ final_pages = <<>>
    /\ outline = <<>>
    /\ report = NoReport
    /\ qa_pc \notin {"save", "done"}

\* the first two parts of C21: a missing manifest, and for assemble.py a
\* missing temp directory, end the command before anything is written
SetupFailuresStop ==
    /\ ~manifest_file =>
          /\ status \in {"idle", "setup_failed"}
          /\ asm_pc \in {"idle", "setup_failed"}
          /\ qa_pc \in {"idle", "setup_failed"}
          /\ NothingWritten
    /\ ~subject_temp_dir =>
          /\ asm_pc \in {"idle", "setup_failed"}
          /\ final_pages = <<>> /\ outline = <<>>

AllArtifactsValid ==
    \A k \in 1 .. Len(resources) :
        LET d == DirName(k - 1, resources[k].url)
        IN  Opens(IF OutputPdf(d) # NoFile THEN OutputPdf(d) ELSE DirectPdf(d))

EveryUnitListsOne == \A u \in DOMAIN units : Len(units[u].resources) >= 1

\* assemble.py then qa.py give the complete document and a passing report:
\* one unit node per unit, one resource node per resource, bookmarks passed,
\* coverage 100% and passed
CompleteAndPassing ==
    /\ asm_pc \in {"done", "nothing", "setup_failed"} =>
          /\ asm_pc = "done"
          /\ Len(outline) = Len(units)
          /\ \A u \in DOMAIN units :
                /\ outline[u].title = units[u].name
                /\ Len(outline[u].children) = Len(units[u].resources)
    /\ qa_pc \in {"done", "setup_failed", "crashed"} =>
          /\ qa_pc = "done"
          /\ report["bookmarks"].passed
          /\ report["resource_coverage"].passed
          /\ report["resource_coverage"].coverage_percentage
                = [num |-> 100 * Len(resources), den |-> Len(resources)]

\* C28 as stated: when every resource of the manifest has a valid cached
\* artifact and every unit lists a resource, assembling and verifying give
\* one unit node per unit and one resource node per resource, and the
\* bookmark check and the coverage check pass, the latter with 100%.
C28_Original ==
    (manifest_file /\ AllArtifactsValid /\ EveryUnitListsOne) => CompleteAndPassing

\* C28, amended: the same for a manifest that lists at least one resource;
\* for a manifest without resources assemble.py writes no document and
\* qa.py has nothing to check.
C28_CompleteDocumentPasses ==
    (manifest_file /\ AllArtifactsValid /\ EveryUnitListsOne /\ Len(resources) >= 1)
        => CompleteAndPassing

\* two units with a valid artifact each were assembled and verified
C28_Witness ==
    /\ qa_pc = "done"
    /\ AllArtifactsValid
    /\ Len(units) = 2
    /\ Len(outline) = 2
    /\ report["resource_coverage"].passed

C22_FlatListIsFlattening ==
    disc_pc = "written" =>
        /\ manifest_file
        /\ resources = Flatten(units)
        /\ \A u \in DOMAIN units :
              \A r \in DOMAIN units[u].resources :
                  units[u].resources[r].unit = units[u].name

\* a manifest was written with "Unidad 10" stored before "Unidad 2", both
\* with resources
C22_Witness ==
    /\ disc_pc = "written"
    /\ Len(units) = 2
    /\ units[1].name = 10
    /\ units[2].name = 2
    /\ Len(resources) >= 2

(* ==================== further claims on qa.py (SpecQa) ================= *)
\* C23: check_page_count reports passed exactly for a document of two or
\* more pages: a document without pages or of a single page fails.
C23_PageCountPasses ==
    "page_count" \in DOMAIN report =>
        /\ report["page_count"].total_pages = Len(final_pages)
        /\ Len(final_pages) \in {0, 1} => ~report["page_count"].passed
        /\ Len(final_pages) >= 2 => report["page_count"].passed

\* a document of exactly one page was checked and failed
C23_Witness ==
    /\ qa_pc = "done"
    /\ Len(final_pages) = 1
    /\ report["page_count"].passed = FALSE

(* ================= further claims on the batch (Spec) ================== *)
\* C24: a batch deals with the positions one at a time and in increasing
\* order: only the positions from start_index up to the loop variable have
\* been touched, every position before the loop variable is finished
\* (succeeded, failed or skipped), so at most the position of the loop
\* variable is being attempted.
C24_OneAtATime ==
    /\ \A p \in DOMAIN result : start_index <= p /\ p <= i
    /\ \A p \in start_index .. (i - 1) : ResultAt(p) \in Processed
    /\ \A p \in DOMAIN result : ResultAt(p) = "started" => (p = i /\ pc # "head")

\* the attempt at position i is under way after the one before it failed
C24_Witness ==
    /\ status = "running"
    /\ i > start_index
    /\ ResultAt(i) = "started"
    /\ ResultAt(i - 1) \in Failures

(* ============ claims on --start and --count (SpecArgs) ================= *)
\* the manifest positions a batch with these arguments may touch
BatchPositions ==
    IF start_index >= 0
    THEN {p \in 0 .. (Len(resources) - 1) : start_index <= p /\ p < end_index}
    ELSE {}

\* C25: whatever integers --start and --count are, a batch fetches for,
\* renders for and changes only cache directories of the manifest positions
\* i with 0 <= start <= i < min(start + count, n), and no cache directory
\* exists for a position outside 0 .. n - 1.
C25_OnlyBatchPositions ==
    /\ \A d \in DOMAIN cache : d[1] \in 0 .. (Len(resources) - 1)
    /\ netOp # NoOp => netOp[1] \in BatchPositions
    /\ \A p \in DOMAIN result : p \in BatchPositions

\* C26: an attempt at a position without artifact starts from an empty
\* directory: whatever directory of that position existed was removed and
\* made anew, so process_scorm_zip finds no "unzipped" left by an earlier
\* attempt (its mkdir of line 96 cannot fail on it) and no other file either.
C26_RetryStartsEmpty ==
    /\ removed # <<>> => cache[ResourceTempDir(i)] = EmptyDir
    /\ pc \in {"process_scorm_zip", "process_direct_pdf", "no_branch"} =>
          cache[ResourceTempDir(i)] = EmptyDir
    /\ (pc = "render_load" /\ target = UrlTarget) =>
          cache[ResourceTempDir(i)] = EmptyDir

\* a second run is about to fetch a package into a directory that held the
\* "unzipped" of a failed attempt before the rmtree of line 157
C26_Witness ==
    /\ runs >= 2
    /\ pc = "process_scorm_zip"
    /\ removed = <<[EmptyDir EXCEPT !.unzipped = TRUE]>>
    /\ cache[ResourceTempDir(i)] = EmptyDir

\* C27: when the MathJax wait has timed out, render_html_to_pdf goes on to
\* page.pdf: the render is at the capture or past it and the resource has
\* not been given a failure for the timeout.
C27_TimeoutStillCaptures ==
    mathjax = "timeout" =>
        /\ pc \in {"render_capture", "render_dump"}
        /\ ResultAt(i) = "started"

\* page.pdf has written output.pdf after a MathJax wait that timed out
C27_Witness ==
    /\ mathjax = "timeout"
    /\ pc = "render_dump"
    /\ OutputPdf(ResourceTempDir(i)) \in PdfFiles

(* ================ claims on download.py (SpecDownload) ================= *)
\* the sleeps after the first n failed attempts that are followed by another
\* attempt: 2 s, then 8 s
Backoffs(n) == SubSeq(<<2, 8>>, 1, Min(n, 2))

\* C29: one call of download_file runs wget at most three times and stops at
\* the first run that succeeds; it sleeps 2 s after the first failed run and
\* 8 s after the second, not after the third, and then returns
\* failed_after_retries; for a URL that is not a package download wget is
\* never run.
C29_BoundedRetries ==
    /\ wgets <= 3
    /\ dl_pc = "wget" => (wgets = attempt /\ slept = Backoffs(attempt))
    /\ dl_result \in {"downloaded", "failed_to_get_filename"} =>
          (wgets = attempt + 1 /\ slept = Backoffs(attempt))
    /\ dl_result = "failed_after_retries" => (wgets = 3 /\ slept = <<2, 8>>)
    /\ dl_result = "skipped_not_a_package" => (wgets = 0 /\ slept = <<>>)
    /\ (dl_pc \in {"wget", "record"} /\ CurrentUrl \notin PackageUrls) =>
          (wgets = 0 /\ dl_result = "skipped_not_a_package")

\* three failed runs of wget, two sleeps, failed_after_retries
C29_Witness ==
    /\ dl_pc = "record"
    /\ dl_result = "failed_after_retries"
    /\ wgets = 3
    /\ slept = <<2, 8>>

\* a URL has a real checksum in checksums.json
RecordedInFile(url) ==
    /\ checksums_file.state = "json"
    /\ url \in DOMAIN checksums_file.entries
    /\ checksums_file.entries[url] # "download_failed"

\* the first two parts of C30: wget is not run for a URL that checksums.json
\* records with a real checksum, and the loop passes over a resource without
\* calling download_file only when its URL has a real checksum
RecordedNeverFetchedAgain ==
    [][/\ wgets' > wgets => ~RecordedInFile(CurrentUrl)
       /\ (dl_pc = "loop" /\ dl_pc' = "loop" /\ dl_k' = dl_k + 1) =>
             AlreadyDownloaded(CurrentUrl)]_vars

\* C30: checksums.json is rewritten after every resource that was not
\* skipped as already downloaded, so that a run that is interrupted has on
\* disk every record it holds except, at most, the one of the resource in
\* progress.
C30_InterruptLosesAtMostOne ==
    dl_pc = "interrupted" =>
        \A url \in DOMAIN checksums :
            \/ (dl_k < Len(dl_manifest) /\ url = CurrentUrl)
            \/ /\ url \in DOMAIN checksums_file.entries
               /\ checksums_file.entries[url] = checksums[url]

====
